---------------------------- MODULE Spec2Model ----------------------------
(***************************************************************************)
(* A model of install.py: the tool that installs a Conan package with the  *)
(* dependency versions recorded when the package was built.                *)
(*                                                                         *)
(* A string is a sequence of characters.  A fixed word of the program that *)
(* is never split, searched or case-folded ("conan", "--require-override", *)
(* a file name) is written as a sequence of one element.                   *)
(***************************************************************************)
EXTENDS Integers, Sequences, FiniteSets, TLC

VARIABLES
    pc,            \* per invocation: the statement of install_pkg it is at
    input,         \* per invocation: the parsed command line of install_main
    env,           \* what the remote answers: exit codes, search results, reports
    profiles,      \* per invocation: the text of the profile file
    fs,            \* the working directory: path -> file
    clauses,       \* per invocation: the list joined at line 58
    full_query,    \* per invocation: full_query of install_pkg
    j,             \* per invocation: the JSON document loaded at line 82
    package_id,    \* per invocation: package_id of install_pkg
    build_info,    \* per invocation: the report read at line 145
    deps,          \* per invocation: deps of install_pkg
    warnings,      \* per invocation: the WARNING lines printed, by level
    err,           \* per invocation: the exception that ended the run
    invoked,       \* per invocation: the argv of every subprocess.check_call
    trace,         \* per invocation: the steps taken, each with its outcome
    done_printed,  \* per invocation: 'Done.' was printed
    exit_status,   \* per invocation: the status of the tool's process
    last_writer,   \* history: kind of artifact -> invocation that wrote one last
    seen_writer    \* history: per invocation, last_writer when it read the artifact

vars == <<pc, input, env, profiles, fs, clauses, full_query, j, package_id,
          build_info, deps, warnings, err, invoked, trace, done_printed,
          exit_status, last_writer, seen_writer>>

----------------------------------------------------------------------------
(* Bounds *)

\* the longest list of -o (and of -s) arguments
MaxOverrides == 2
\* the most entries the search result has at one level
MaxLevel == 2
\* the largest exit status of an external command
MaxExit == 2

\* the most keys the full_requires section of a report has
MaxDeps == 2

\* the invocations of the tool that may share one working directory
Procs == {1, 2}

----------------------------------------------------------------------------
(* Strings *)

W(word) == <<word>>

QUOTE == "\""
EQ == "="
COLON == ":"

\* str.lower() on one character
LowerChar(c) ==
    CASE c = "A" -> "a"
      [] c = "B" -> "b"
      [] c = "P" -> "p"
      [] OTHER -> c

Lower(s) == [i \in DOMAIN s |-> LowerChar(s[i])]

\* re.search(r'\s', val)
HasSpace(s) == \E i \in DOMAIN s : s[i] \in {" ", "\t", "\n"}

\* str.endswith
EndsWith(s, suffix) ==
    /\ Len(s) >= Len(suffix)
    /\ SubSeq(s, Len(s) - Len(suffix) + 1, Len(s)) = suffix

RECURSIVE SplitFrom(_, _, _, _, _)
SplitFrom(s, sep, i, cur, acc) ==
    IF i > Len(s) THEN Append(acc, cur)
    ELSE IF s[i] = sep THEN SplitFrom(s, sep, i + 1, <<>>, Append(acc, cur))
    ELSE SplitFrom(s, sep, i + 1, Append(cur, s[i]), acc)

\* str.split(sep) with maxsplit=1: a faulty variant of Split
SplitOnce(s, sep) ==
    IF \E i \in DOMAIN s : s[i] = sep
    THEN LET k == CHOOSE i \in DOMAIN s :
                     /\ s[i] = sep
                     /\ \A m \in 1..(i - 1) : s[m] # sep
         IN <<SubSeq(s, 1, k - 1), SubSeq(s, k + 1, Len(s))>>
    ELSE <<s>>

\* str.split(sep): every occurrence of the separator splits
Split(s, sep) == SplitFrom(s, sep, 1, <<>>, <<>>)

RECURSIVE Join(_, _)
\* sep.join(list)
Join(list, sep) ==
    IF list = <<>> THEN <<>>
    ELSE IF Len(list) = 1 THEN list[1]
    ELSE list[1] \o sep \o Join(Tail(list), sep)

AND_SEP == <<" ", "A", "N", "D", " ">>
BUILD_SUFFIX == <<"_", "b", "u", "i", "l", "d">>

----------------------------------------------------------------------------
(* Dictionaries: Python's dict keeps insertion order; an update of an      *)
(* existing key keeps the key's position.                                  *)

DictIndex(d, key) ==
    IF \E i \in DOMAIN d : d[i].key = key
    THEN CHOOSE i \in DOMAIN d : d[i].key = key
    ELSE 0

DictSet(d, e) ==
    IF DictIndex(d, e.key) = 0 THEN Append(d, e)
    ELSE [d EXCEPT ![DictIndex(d, e.key)] = e]

----------------------------------------------------------------------------
(* configparser.ConfigParser(allow_no_value=True, strict=False,            *)
(* delimiters=['=']).  A document is a sequence of lines, each a section   *)
(* header or an entry; an entry without the delimiter has no value.        *)

Section(name) == [kind |-> "section", key |-> W(name), val |-> <<>>, none |-> TRUE]
Entry(key, val) == [kind |-> "entry", key |-> key, val |-> val, none |-> FALSE]
Bare(key) == [kind |-> "entry", key |-> key, val |-> <<>>, none |-> TRUE]

\* RawConfigParser.optionxform: option names are lower-cased
optionxform(key) == Lower(key)

SectionIndex(parsed, name) ==
    IF \E i \in DOMAIN parsed : parsed[i].name = name
    THEN CHOOSE i \in DOMAIN parsed : parsed[i].name = name
    ELSE 0

RECURSIVE ReadFrom(_, _, _, _)
ReadFrom(doc, i, cur, parsed) ==
    IF i > Len(doc) THEN parsed
    ELSE LET line == doc[i] IN
         IF line.kind = "section"
         THEN IF SectionIndex(parsed, line.key) = 0
              THEN ReadFrom(doc, i + 1, Len(parsed) + 1,
                            Append(parsed, [name |-> line.key, entries |-> <<>>]))
              ELSE ReadFrom(doc, i + 1, SectionIndex(parsed, line.key), parsed)
         ELSE LET e == [key |-> optionxform(line.key), val |-> line.val,
                        none |-> line.none]
              IN ReadFrom(doc, i + 1, cur,
                          [parsed EXCEPT ![cur].entries = DictSet(@, e)])

\* parser.read(path): the sections in first-seen order, each an ordered dict
get_conan_ini_parser(doc) == ReadFrom(doc, 1, 0, <<>>)

----------------------------------------------------------------------------
(* get_full_query_from_profile *)

RECURSIVE ConsultedFrom(_, _)
\* lines 30-34: the entries of the settings and options sections, in order
ConsultedFrom(parsed, i) ==
    IF i > Len(parsed) THEN <<>>
    ELSE (IF parsed[i].name \in {W("settings"), W("options")}
          THEN parsed[i].entries ELSE <<>>) \o ConsultedFrom(parsed, i + 1)

RECURSIVE RegisterProfile(_, _, _)
\* lines 34-40: a value-less key makes re.search raise TypeError
RegisterProfile(items, i, queries) ==
    IF i > Len(items) THEN [err |-> "none", queries |-> queries]
    ELSE LET e == items[i] IN
         IF EndsWith(e.key, BUILD_SUFFIX) THEN RegisterProfile(items, i + 1, queries)
         ELSE IF e.none THEN [err |-> "TypeError", queries |-> queries]
         ELSE LET val == IF HasSpace(e.val) THEN <<QUOTE>> \o e.val \o <<QUOTE>>
                         ELSE e.val
              IN RegisterProfile(items, i + 1,
                                 DictSet(queries, [key |-> e.key, val |-> val]))

RECURSIVE ApplyOverrides(_, _, _)
\* lines 43-48 and 51-56
ApplyOverrides(list, i, queries) ==
    IF i > Len(list) THEN [err |-> "none", queries |-> queries]
    ELSE LET parts == Split(list[i], EQ) IN
         IF Len(parts) # 2 THEN [err |-> "ValueError", queries |-> queries]
         ELSE ApplyOverrides(list, i + 1,
                             DictSet(queries, [key |-> parts[1], val |-> parts[2]]))

\* lines 25-56: the queries dict, or the exception raised
BuildQueries(doc, conan_options, conan_settings) ==
    LET fromProfile == RegisterProfile(ConsultedFrom(get_conan_ini_parser(doc), 1),
                                       1, <<>>)
    IN IF fromProfile.err # "none" THEN fromProfile
       ELSE LET fromOptions == ApplyOverrides(conan_options, 1, fromProfile.queries)
            IN IF fromOptions.err # "none" THEN fromOptions
               ELSE ApplyOverrides(conan_settings, 1, fromOptions.queries)

\* line 58: the list comprehension
QueryClauses(queries) ==
    [i \in DOMAIN queries |-> queries[i].key \o <<EQ>> \o queries[i].val]

----------------------------------------------------------------------------
(* get_package_id, lines 84-106 *)

\* `if not results`
NotFound(list) == list = <<>>

\* `if len(results) > 2`: a faulty variant of Multiple
MultipleOffByOne(list) == Len(list) > 2

\* `if len(results) > 1`
Multiple(list) == Len(list) > 1

Warn(level, list) == IF Multiple(list) THEN <<level>> ELSE <<>>

PackageIdOf(results) ==
    IF NotFound(results)
    THEN [err |-> "ValueError", id |-> <<>>, warnings |-> <<>>]
    ELSE LET w1 == Warn("results", results)
             items == results[1].items
         IN IF NotFound(items)
            THEN [err |-> "ValueError", id |-> <<>>, warnings |-> w1]
            ELSE LET w2 == w1 \o Warn("items", items)
                     packages == items[1].packages
                 IN IF NotFound(packages)
                    THEN [err |-> "ValueError", id |-> <<>>, warnings |-> w2]
                    ELSE [err |-> "none", id |-> packages[1].id,
                          warnings |-> w2 \o Warn("packages", packages)]

\* lines 67-77
SearchArgv(package_reference, conan_remote, query, path) ==
    <<W("conan"), W("search"), W("-q"), query, W("-r"), conan_remote,
      W("-j"), W(path), package_reference>>

----------------------------------------------------------------------------
(* get_conan_info, get_dependencies_from_conan_info, install *)

\* lines 127-134
GetArgv(full_reference, conan_remote) ==
    <<W("conan"), W("get"), W("-r"), conan_remote, full_reference,
      W("conaninfo.txt")>>

\* lines 150-153: the text before the first colon of every key
DepsOfSection(entries) == [i \in DOMAIN entries |-> Split(entries[i].key, COLON)[1]]

\* lines 144-154
DepsOf(doc) ==
    LET parsed == get_conan_ini_parser(doc)
        at == SectionIndex(parsed, W("full_requires"))
    IN IF at = 0 THEN <<>> ELSE DepsOfSection(parsed[at].entries)

RECURSIVE Flags(_, _)
Flags(flag, list) ==
    IF list = <<>> THEN <<>>
    ELSE <<W(flag), list[1]>> \o Flags(flag, Tail(list))

\* lines 161-178 with the two loops over the overrides exchanged: a faulty variant
InstallArgvSettingsFirst(package_reference, conan_remote, conan_profile_path, dependencies, conan_options, conan_settings) ==
    <<W("conan"), W("install"), W("-r"), conan_remote, W("-pr"), conan_profile_path>>
        \o Flags("--require-override", dependencies)
        \o Flags("-s", conan_settings)
        \o Flags("-o", conan_options)
        \o <<package_reference>>

\* lines 161-178
InstallArgv(package_reference, conan_remote, conan_profile_path, dependencies, conan_options, conan_settings) ==
    <<W("conan"), W("install"), W("-r"), conan_remote, W("-pr"), conan_profile_path>>
        \o Flags("--require-override", dependencies)
        \o Flags("-o", conan_options)
        \o Flags("-s", conan_settings)
        \o <<package_reference>>

----------------------------------------------------------------------------
(* install_pkg and install_main: how a step ends *)

\* subprocess.call: the exit status is ignored: a faulty variant of check_call
call_unchecked(rc) == "none"

\* subprocess.check_call (lines 79, 137, 180) raises on a non-zero exit status
check_call(rc) == IF rc = 0 THEN "none" ELSE "CalledProcessError"

\* an exception caught and dropped by the caller: a faulty variant of Propagates
Swallowed(exc) == FALSE

\* install_pkg and install_main catch nothing (lines 183-228)
Propagates(exc) == exc # "none"

\* the status Python gives a process ended by an uncaught exception (line 228)
UncaughtExit == 1

\* the failed command's status handed on by sys.exit: a faulty variant of ExitStatus
ReturnCodeExit(exc, rc) ==
    IF exc = "none" THEN 0 ELSE IF exc = "CalledProcessError" THEN rc ELSE UncaughtExit

\* line 228: no sys.exit, so 0 at the end of the script, else the interpreter's
ExitStatus(exc, rc) == IF exc = "none" THEN 0 ELSE UncaughtExit

\* a file name shared by no other invocation: a faulty variant of the two paths
UniqueSearchPath(p) == "conan_search.json." \o ToString(p)

\* line 66
SearchJsonPath(p) == "conan_search.json"

\* line 192
ConanInfoPath(p) == "conaninfo.txt"

Paths == UNION {{SearchJsonPath(p), ConanInfoPath(p)} : p \in Procs}

\* a path on which nothing was written yet
Absent == [by |-> 0, results |-> <<>>, lines |-> <<>>]

Step(name, exc, rc) == [step |-> name, ok |-> exc = "none", rc |-> rc]

\* the step `name` of invocation p ended with exc; on success p goes on to `next`
Finish(p, name, exc, rc, next) ==
    /\ trace' = [trace EXCEPT ![p] = Append(@, Step(name, exc, rc))]
    /\ IF Propagates(exc)
       THEN /\ pc' = [pc EXCEPT ![p] = "failed"]
            /\ err' = [err EXCEPT ![p] = exc]
            /\ exit_status' = [exit_status EXCEPT ![p] = ExitStatus(exc, rc)]
       ELSE /\ pc' = [pc EXCEPT ![p] = next]
            /\ UNCHANGED <<err, exit_status>>

----------------------------------------------------------------------------
(* The inputs and the remote's answers *)

SeqsUpTo(S, n) == UNION {[1..m -> S] : m \in 0..n}

\* a profile with a quoted value, a build-time key and a section not consulted
ProfileLinux ==
    <<Section("settings"), Entry(<<"a">>, <<"1">>), Entry(<<"a">> \o BUILD_SUFFIX, <<"9">>),
      Section("options"), Entry(<<"b">>, <<"u", " ", "v">>),
      Section("env"), Entry(<<"z">>, <<"1">>)>>

\* a profile with an option of a package whose name has a capital letter
ProfileCapital == <<Section("options"), Entry(<<"P", ":", "s">>, <<"1">>)>>

\* a profile with a setting that has no value
ProfileBare == <<Section("settings"), Bare(<<"a">>)>>

Profiles == {ProfileLinux, ProfileCapital, ProfileBare}

OverrideStrings ==
    { <<"P", ":", "s", "=", "0">>,
      <<"b", "=", "x", " ", "y">>,
      <<"a">>,
      <<"a", "=", "1", "=", "2">> }

OverrideLists == SeqsUpTo(OverrideStrings, MaxOverrides)

Reference(p) == W("app" \o ToString(p) \o "/1.0@me/stable")
Remote == W("myremote")
ProfilePath == W("profile")

\* the search result with nr results, ni items in the first, np packages in its first
SearchResult(ref, shape) ==
    [r \in 1..shape[1] |->
        [items |-> [i \in 1..(IF r = 1 THEN shape[2] ELSE 1) |->
            [recipe |-> ref,
             packages |-> [k \in 1..(IF r = 1 /\ i = 1 THEN shape[3] ELSE 1) |->
                 [id |-> <<"p", ToString(r), ToString(i), ToString(k)>>]]]]]]

Shapes ==
    {s \in (0..MaxLevel) \X (0..MaxLevel) \X (0..MaxLevel) :
        /\ s[1] = 0 => s[2] = 0
        /\ s[2] = 0 => s[3] = 0}

DepKey(capital, n) ==
    <<IF capital /\ n = 1 THEN "A" ELSE "a", "/", ToString(n), ":", "h", ToString(n)>>

\* a report with n keys in full_requires
ReportWith(capital, n) ==
    <<Section("settings"), Entry(<<"o", "s">>, <<"L">>), Section("full_requires")>>
        \o [i \in 1..n |-> Bare(DepKey(capital, i))]

ReportWithout == <<Section("settings"), Entry(<<"o", "s">>, <<"L">>)>>

\* the reports a remote may hold, each named by what it contains
ReportKinds ==
    {[section |-> FALSE, capital |-> FALSE, keys |-> 0]}
        \cup {[section |-> TRUE, capital |-> c, keys |-> n] :
                 c \in BOOLEAN, n \in 0..MaxDeps}

Report(kind) ==
    IF kind.section THEN ReportWith(kind.capital, kind.keys) ELSE ReportWithout

Idle == [reference |-> <<>>, remote |-> <<>>, profile |-> <<>>,
         options |-> <<>>, settings |-> <<>>]

Args(p, o, s) == [reference |-> Reference(p), remote |-> Remote, profile |-> ProfilePath,
                  options |-> o, settings |-> s]

Locals ==
    /\ fs = [path \in Paths |-> Absent]
    /\ clauses = [p \in Procs |-> <<>>]
    /\ full_query = [p \in Procs |-> <<>>]
    /\ j = [p \in Procs |-> <<>>]
    /\ package_id = [p \in Procs |-> <<>>]
    /\ build_info = [p \in Procs |-> <<>>]
    /\ deps = [p \in Procs |-> <<>>]
    /\ warnings = [p \in Procs |-> <<>>]
    /\ err = [p \in Procs |-> "none"]
    /\ invoked = [p \in Procs |-> <<>>]
    /\ trace = [p \in Procs |-> <<>>]
    /\ done_printed = [p \in Procs |-> FALSE]
    /\ exit_status = [p \in Procs |-> -1]
    /\ last_writer = [search |-> 0, info |-> 0]
    /\ seen_writer = [p \in Procs |-> [search |-> 0, info |-> 0]]

\* one invocation, any command line, any answer of the remote
Init ==
    /\ pc = [p \in Procs |-> IF p = 1 THEN "start" ELSE "idle"]
    /\ \E o \in OverrideLists, s \in OverrideLists :
          input = [p \in Procs |-> IF p = 1 THEN Args(p, o, s) ELSE Idle]
    /\ \E doc \in Profiles : profiles = [p \in Procs |-> doc]
    /\ env = [codes |-> 0..MaxExit, shapes |-> Shapes, reports |-> ReportKinds]
    /\ Locals

\* two invocations in one working directory, each for its own package
InitRace ==
    /\ pc = [p \in Procs |-> "start"]
    /\ input = [p \in Procs |-> Args(p, <<>>, <<>>)]
    /\ profiles = [p \in Procs |-> ProfileLinux]
    /\ env = [codes |-> {0, MaxExit}, shapes |-> {<<1, 1, 1>>},
              reports |-> {[section |-> TRUE, capital |-> FALSE, keys |-> 1]}]
    /\ Locals

----------------------------------------------------------------------------
(* The steps of install_pkg, lines 183-199 *)

\* line 185: get_full_query_from_profile, lines 20-59
get_full_query_from_profile(p) ==
    /\ pc[p] = "start"
    /\ LET built == BuildQueries(profiles[p], input[p].options, input[p].settings) IN
       /\ IF built.err = "none"
          THEN /\ clauses' = [clauses EXCEPT ![p] = QueryClauses(built.queries)]
               /\ full_query' = [full_query EXCEPT ![p] =
                                    Join(QueryClauses(built.queries), AND_SEP)]
          ELSE UNCHANGED <<clauses, full_query>>
       /\ Finish(p, "query", built.err, 0, "search")
    /\ UNCHANGED <<input, env, profiles, fs, j, package_id, build_info, deps,
                   warnings, invoked, done_printed, last_writer, seen_writer>>

\* lines 66-79: the search command, which writes conan_search.json when it succeeds
get_package_id_search(p) ==
    /\ pc[p] = "search"
    /\ \E rc \in env.codes :
          /\ invoked' = [invoked EXCEPT ![p] =
                Append(@, SearchArgv(input[p].reference, input[p].remote,
                                     full_query[p], SearchJsonPath(p)))]
          /\ IF rc = 0
             THEN \E shape \in env.shapes :
                     /\ fs' = [fs EXCEPT ![SearchJsonPath(p)] =
                                  [by |-> p, lines |-> <<>>,
                                   results |-> SearchResult(input[p].reference, shape)]]
                     /\ last_writer' = [last_writer EXCEPT !.search = p]
             ELSE UNCHANGED <<fs, last_writer>>
          /\ Finish(p, "search", check_call(rc), rc, "load")
    /\ UNCHANGED <<input, env, profiles, clauses, full_query, j, package_id,
                   build_info, deps, warnings, done_printed, seen_writer>>

\* lines 81-106: the file is opened and loaded, the package id is chosen
get_package_id_load(p) ==
    /\ pc[p] = "load"
    /\ LET file == fs[SearchJsonPath(p)]
           found == PackageIdOf(file.results)
       IN IF file.by = 0
          THEN /\ Finish(p, "resolve", "FileNotFoundError", 0, "open")
               /\ UNCHANGED <<j, package_id, warnings, seen_writer>>
          ELSE /\ j' = [j EXCEPT ![p] = file]
               /\ seen_writer' = [seen_writer EXCEPT ![p].search = last_writer.search]
               /\ warnings' = [warnings EXCEPT ![p] = found.warnings]
               /\ package_id' = [package_id EXCEPT ![p] = found.id]
               /\ Finish(p, "resolve", found.err, 0, "open")
    /\ UNCHANGED <<input, env, profiles, fs, clauses, full_query, build_info, deps,
                   invoked, done_printed, last_writer>>

\* line 135: open(conan_info_file_path, 'w') truncates the file
get_conan_info_open(p) ==
    /\ pc[p] = "open"
    /\ fs' = [fs EXCEPT ![ConanInfoPath(p)] = [by |-> p, lines |-> <<>>, results |-> <<>>]]
    /\ last_writer' = [last_writer EXCEPT !.info = p]
    /\ pc' = [pc EXCEPT ![p] = "get"]
    /\ UNCHANGED <<input, env, profiles, clauses, full_query, j, package_id,
                   build_info, deps, warnings, err, invoked, trace, done_printed,
                   exit_status, seen_writer>>

\* lines 136-137: the get command, whose standard output is the file
get_conan_info(p) ==
    /\ pc[p] = "get"
    /\ \E rc \in env.codes :
          /\ invoked' = [invoked EXCEPT ![p] =
                Append(@, GetArgv(input[p].reference \o <<COLON>> \o package_id[p],
                                  input[p].remote))]
          /\ IF rc = 0
             THEN \E kind \in env.reports :
                     /\ fs' = [fs EXCEPT ![ConanInfoPath(p)] =
                                  [by |-> p, lines |-> Report(kind), results |-> <<>>]]
                     /\ last_writer' = [last_writer EXCEPT !.info = p]
             ELSE UNCHANGED <<fs, last_writer>>
          /\ Finish(p, "get", check_call(rc), rc, "extract")
    /\ UNCHANGED <<input, env, profiles, clauses, full_query, j, package_id,
                   build_info, deps, warnings, done_printed, seen_writer>>

\* line 195: get_dependencies_from_conan_info, lines 140-154
get_dependencies_from_conan_info(p) ==
    /\ pc[p] = "extract"
    /\ LET file == fs[ConanInfoPath(p)] IN
       /\ build_info' = [build_info EXCEPT ![p] = file]
       /\ deps' = [deps EXCEPT ![p] = DepsOf(file.lines)]
       /\ seen_writer' = [seen_writer EXCEPT ![p].info = last_writer.info]
    /\ Finish(p, "extract", "none", 0, "install")
    /\ UNCHANGED <<input, env, profiles, fs, clauses, full_query, j, package_id,
                   warnings, invoked, done_printed, last_writer>>

\* lines 198-199: install, lines 157-180, then 'Done.'
install(p) ==
    /\ pc[p] = "install"
    /\ \E rc \in env.codes :
          /\ invoked' = [invoked EXCEPT ![p] =
                Append(@, InstallArgv(input[p].reference, input[p].remote,
                                      input[p].profile, deps[p],
                                      input[p].options, input[p].settings))]
          /\ trace' = [trace EXCEPT ![p] = Append(@, Step("install", check_call(rc), rc))]
          /\ IF Propagates(check_call(rc))
             THEN /\ pc' = [pc EXCEPT ![p] = "failed"]
                  /\ err' = [err EXCEPT ![p] = check_call(rc)]
                  /\ exit_status' = [exit_status EXCEPT ![p] =
                                        ExitStatus(check_call(rc), rc)]
                  /\ UNCHANGED done_printed
             ELSE /\ pc' = [pc EXCEPT ![p] = "done"]
                  /\ done_printed' = [done_printed EXCEPT ![p] = TRUE]
                  /\ exit_status' = [exit_status EXCEPT ![p] = ExitStatus("none", 0)]
                  /\ UNCHANGED err
    /\ UNCHANGED <<input, env, profiles, fs, clauses, full_query, j, package_id,
                   build_info, deps, warnings, last_writer, seen_writer>>

install_pkg(p) ==
    \/ get_full_query_from_profile(p)
    \/ get_package_id_search(p)
    \/ get_package_id_load(p)
    \/ get_conan_info_open(p)
    \/ get_conan_info(p)
    \/ get_dependencies_from_conan_info(p)
    \/ install(p)

Next == \E p \in Procs : install_pkg(p)

Spec == Init /\ [][Next]_vars

SpecRace == InitRace /\ [][Next]_vars

----------------------------------------------------------------------------
(* What the claims speak of *)

Ran(p, name) == \E i \in DOMAIN trace[p] : trace[p][i].step = name

\* the subcommand of every external command invoked, in order
Commands(p) == [i \in DOMAIN invoked[p] |-> invoked[p][i][2]]

Occurrences(s, c) == Cardinality({i \in DOMAIN s : s[i] = c})

FirstIndex(s, c) ==
    IF \E i \in DOMAIN s : s[i] = c
    THEN CHOOSE i \in DOMAIN s : s[i] = c /\ \A m \in 1..(i - 1) : s[m] # c
    ELSE Len(s) + 1

Before(s, c) == SubSeq(s, 1, FirstIndex(s, c) - 1)
After(s, c) == SubSeq(s, FirstIndex(s, c) + 1, Len(s))

\* the section a line of a document stands in, as written
SectionOfLine(doc, i) ==
    LET heads == {h \in 1..(i - 1) : doc[h].kind = "section"} IN
    IF heads = {} THEN <<>>
    ELSE doc[CHOOSE h \in heads : \A g \in heads : g <= h].key

\* the lines of a profile that take part in the query, as written
QueryLines(doc) ==
    {i \in DOMAIN doc :
        /\ doc[i].kind = "entry"
        /\ SectionOfLine(doc, i) \in {W("settings"), W("options")}
        /\ ~EndsWith(doc[i].key, BUILD_SUFFIX)}

ProfileKeys(doc) == {doc[i].key : i \in QueryLines(doc)}
OverrideKeys(list) == {Before(list[i], EQ) : i \in DOMAIN list}

LastValue(list, key) ==
    After(list[CHOOSE i \in DOMAIN list :
                  /\ Before(list[i], EQ) = key
                  /\ \A m \in DOMAIN list : Before(list[m], EQ) = key => m <= i], EQ)

ProfileValue(doc, key) ==
    LET i == CHOOSE n \in QueryLines(doc) :
                 /\ doc[n].key = key
                 /\ \A m \in QueryLines(doc) : doc[m].key = key => m <= n
    IN IF HasSpace(doc[i].val) THEN <<QUOTE>> \o doc[i].val \o <<QUOTE>> ELSE doc[i].val

SourceKeys(p) ==
    ProfileKeys(profiles[p]) \cup OverrideKeys(input[p].options)
        \cup OverrideKeys(input[p].settings)

\* explicit setting over explicit option over profile
Winner(p, key) ==
    IF key \in OverrideKeys(input[p].settings) THEN LastValue(input[p].settings, key)
    ELSE IF key \in OverrideKeys(input[p].options) THEN LastValue(input[p].options, key)
    ELSE ProfileValue(profiles[p], key)

\* the name under which the query holds a key: a key that only the profile
\* names is looked up as the profile parser spells it
ClauseKey(p, key) ==
    IF key \in OverrideKeys(input[p].settings) \cup OverrideKeys(input[p].options)
    THEN key ELSE optionxform(key)

QueryBuilt(p) == Ran(p, "query") /\ trace[p][1].ok

\* C1: the query holds exactly one clause per key of the three sources, and
\* the clause of a key carries the value of the highest-precedence source
\* that names the key (setting over option over profile, last entry of a
\* list first).
C1_OneClausePerKey ==
    \A p \in Procs : QueryBuilt(p) =>
        /\ Len(clauses[p]) = Cardinality(SourceKeys(p))
        /\ \A key \in SourceKeys(p) :
              \E i \in DOMAIN clauses[p] :
                 clauses[p][i] = ClauseKey(p, key) \o <<EQ>> \o Winner(p, key)

PipelineOrder == <<"query", "search", "resolve", "get", "extract", "install">>

CommandSteps(p) ==
    SelectSeq([i \in DOMAIN trace[p] |-> W(trace[p][i].step)],
              LAMBDA w : w \in {W("search"), W("get"), W("install")})

\* C2: the steps run in the fixed order query, search, resolve, get,
\* extract, install, each at most once; a step runs only after every
\* earlier one succeeded (a command: exit status zero); the commands invoked
\* are exactly those of the steps run; 'Done.' needs a successful install.
C2_LinearPipeline ==
    \A p \in Procs :
        /\ Len(trace[p]) <= Len(PipelineOrder)
        /\ \A i \in DOMAIN trace[p] :
              /\ trace[p][i].step = PipelineOrder[i]
              /\ i < Len(trace[p]) => trace[p][i].ok /\ trace[p][i].rc = 0
        /\ Commands(p) = CommandSteps(p)
        /\ done_printed[p] =>
              /\ Len(trace[p]) = Len(PipelineOrder)
              /\ trace[p][Len(trace[p])].ok /\ trace[p][Len(trace[p])].rc = 0

C2_Witness ==
    \E p \in Procs :
        /\ done_printed[p]
        /\ Commands(p) = <<W("search"), W("get"), W("install")>>

\* the keys of the full_requires section of a report, as written, in order
RequireKeys(doc) ==
    SelectSeq([i \in DOMAIN doc |->
                  IF doc[i].kind = "entry" /\ SectionOfLine(doc, i) = W("full_requires")
                  THEN doc[i].key ELSE <<>>],
              LAMBDA k : k # <<>>)

\* C3: the dependencies are, for every key of full_requires in document
\* order, the key's text before its first colon, unchanged; none when the
\* section is absent or empty.
C3_DepsAreKeyPrefixes ==
    \A p \in Procs : Ran(p, "extract") =>
        deps[p] = [i \in DOMAIN RequireKeys(build_info[p].lines) |->
                      Before(RequireKeys(build_info[p].lines)[i], COLON)]

\* C4: the install invocation is `conan install -r <remote> -pr <profile>`,
\* then --require-override and the identifier for every dependency in list
\* order, then -o and the string for every option, then -s and the string
\* for every setting, then the package reference.
C4_InstallArgv ==
    \A p \in Procs : Ran(p, "install") =>
        LET argv == invoked[p][Len(invoked[p])]
            nd == Len(deps[p])
            no == Len(input[p].options)
            ns == Len(input[p].settings)
        IN /\ Len(argv) = 6 + 2 * (nd + no + ns) + 1
           /\ SubSeq(argv, 1, 6) = <<W("conan"), W("install"), W("-r"), input[p].remote,
                                     W("-pr"), input[p].profile>>
           /\ \A i \in 1..nd :
                 /\ argv[6 + 2 * i - 1] = W("--require-override")
                 /\ argv[6 + 2 * i] = deps[p][i]
           /\ \A i \in 1..no :
                 /\ argv[6 + 2 * nd + 2 * i - 1] = W("-o")
                 /\ argv[6 + 2 * nd + 2 * i] = input[p].options[i]
           /\ \A i \in 1..ns :
                 /\ argv[6 + 2 * (nd + no) + 2 * i - 1] = W("-s")
                 /\ argv[6 + 2 * (nd + no) + 2 * i] = input[p].settings[i]
           /\ argv[Len(argv)] = input[p].reference

C4_Witness ==
    \E p \in Procs :
        /\ Ran(p, "install")
        /\ Len(deps[p]) = 2
        /\ Len(input[p].options) = 2
        /\ Len(input[p].settings) = 1
        /\ input[p].options[1] # input[p].settings[1]

\* an override string that does not hold exactly one '='
Malformed(s) == Occurrences(s, EQ) # 1

HasMalformed(p) ==
    \/ \E i \in DOMAIN input[p].options : Malformed(input[p].options[i])
    \/ \E i \in DOMAIN input[p].settings : Malformed(input[p].settings[i])

\* a profile with a value-less key among the lines that take part in the query
HasBareKey(doc) == \E i \in QueryLines(doc) : doc[i].none

FailedCommand(p) ==
    /\ pc[p] = "failed"
    /\ err[p] = "CalledProcessError"

\* C6, as claimed: a command that exits with a non-zero status c ends the
\* tool with that status c; when every command succeeds the tool prints
\* 'Done.' and exits with zero.
C6_ExitStatusPropagated ==
    \A p \in Procs :
        /\ FailedCommand(p) => exit_status[p] = trace[p][Len(trace[p])].rc
        /\ pc[p] = "done" => done_printed[p] /\ exit_status[p] = 0

\* C6, amended: a command that exits with a non-zero status ends the tool
\* with status 1, whatever the command's status was, and without 'Done.';
\* when all three commands succeed the tool prints 'Done.' and exits with 0.
C6_ExitStatusUncaught ==
    \A p \in Procs :
        /\ FailedCommand(p) =>
              /\ trace[p][Len(trace[p])].rc # 0
              /\ exit_status[p] = 1
              /\ ~done_printed[p]
        /\ (\A i \in DOMAIN trace[p] : trace[p][i].rc = 0) /\ Len(invoked[p]) = 3 =>
              pc[p] = "done" /\ done_printed[p] /\ exit_status[p] = 0
        /\ pc[p] = "done" => done_printed[p] /\ exit_status[p] = 0

C6_Witness ==
    \E p \in Procs :
        /\ FailedCommand(p)
        /\ trace[p][Len(trace[p])].step = "get"
        /\ trace[p][Len(trace[p])].rc = 2

Loaded(p) == Ran(p, "resolve") /\ j[p] # <<>>

EmptyLevel(results) ==
    \/ results = <<>>
    \/ results[1].items = <<>>
    \/ results[1].items[1].packages = <<>>

\* C7: a search result that is empty at the results level, at the items
\* level of the first result or at the packages level of the first item
\* fails the run with the not-found error (ValueError), and neither get nor
\* install is invoked.
C7_NotFoundStops ==
    \A p \in Procs : Loaded(p) /\ EmptyLevel(j[p].results) =>
        /\ pc[p] = "failed"
        /\ err[p] = "ValueError"
        /\ Commands(p) = <<W("search")>>

C7_Witness ==
    \E p \in Procs :
        /\ Loaded(p)
        /\ Len(j[p].results) = 2
        /\ j[p].results[1].items = <<>>
        /\ pc[p] = "failed"

IsWrapped(v) == Len(v) >= 2 /\ v[1] = QUOTE /\ v[Len(v)] = QUOTE

\* C8: in every clause of the query the value is wrapped in double quotes
\* if and only if it contains whitespace.
C8_QuotedIffWhitespace ==
    \A p \in Procs : QueryBuilt(p) =>
        \A i \in DOMAIN clauses[p] :
            IsWrapped(After(clauses[p][i], EQ)) <=> HasSpace(After(clauses[p][i], EQ))

WarningFor(level, list) == IF Len(list) > 1 THEN <<level>> ELSE <<>>

\* C9: when the first result, its first item and that item's first package
\* exist, the run goes on with that package's id, unchanged, and the
\* warnings printed are one per level that has more than one entry.
C9_FirstPackageChosen ==
    \A p \in Procs : Loaded(p) /\ ~EmptyLevel(j[p].results) =>
        LET results == j[p].results
            items == results[1].items
            packages == items[1].packages
        IN /\ trace[p][3].ok
           /\ err[p] # "ValueError"
           /\ package_id[p] = packages[1].id
           /\ warnings[p] = WarningFor("results", results) \o WarningFor("items", items)
                                \o WarningFor("packages", packages)

C9_Witness ==
    \E p \in Procs :
        /\ Loaded(p)
        /\ Len(j[p].results) = 1
        /\ Len(j[p].results[1].items) = 1
        /\ Len(j[p].results[1].items[1].packages) = 2
        /\ warnings[p] = <<"packages">>
        /\ package_id[p] = <<"p", "1", "1", "1">>
        /\ pc[p] = "done"

\* C10: whatever an invocation loads from conan_search.json or reads from
\* conaninfo.txt is what the invocation that wrote that artifact last left
\* there, its own or not: the two invocations share both files.
C10_ReadsLastWritten ==
    \A p \in Procs :
        /\ j[p] # <<>> => j[p].by = seen_writer[p].search
        /\ build_info[p] # <<>> => build_info[p].by = seen_writer[p].info

\* an invocation that installed with the other's search result and report
C10_Witness ==
    \E p \in Procs :
        /\ pc[p] = "done"
        /\ j[p].by # p
        /\ j[p].results[1].items[1].recipe # input[p].reference
        /\ build_info[p].by # p

=============================================================================
